---------------------------- MODULE Spec2Model ----------------------------
(***************************************************************************)
(* Model of vite-plugin-wasm-pack (src/src/index.ts).                      *)
(*                                                                         *)
(* Strings are sequences of tokens.  A token is one character ("a", "-",   *)
(* "_", "/", ".", "'", ";", the line break "\n", the double quote) or a    *)
(* fixed run of characters that the code only ever handles as a whole      *)
(* ("input = ", "new URL(", ".wasm", ".js", "bg", "pkg", "node_modules",   *)
(* "assets", ...).  Paths, loader-script texts, file names and request     *)
(* URLs are all such sequences, so path.basename, String.replace,          *)
(* path.join and the regular expression are computed on them as the code   *)
(* computes them on characters.                                            *)
(***************************************************************************)
EXTENDS Naturals, Sequences, FiniteSets

\* most declared sources (local crates plus npm crates) of one plugin instance
MaxSources == 3

\* most fragments of a loader-script text drawn for the rewrite alone
MaxFragments == 5

(***************************************************************************)
(* Tokens                                                                  *)
(***************************************************************************)
SLASH == "/"
DOT == "."
HYPHEN == "-"
UNDERSCORE == "_"
NL == "\n"
QUOTE == "'"
DQUOTE == "\""
SEMI == ";"
\* the literal text  input =   (with its trailing blank)
INPUT_EQ == "input = "
\* the literal text  new URL(
NEW_URL == "new URL("
WASM_EXT == ".wasm"
JS_EXT == ".js"

\* the value of a variable no assignment has reached yet
Undefined == <<"undefined">>

Last(s) == s[Len(s)]

Front(s) == SubSeq(s, 1, Len(s) - 1)

RECURSIVE Flatten(_)
Flatten(ss) == IF ss = <<>> THEN <<>> ELSE Head(ss) \o Flatten(Tail(ss))

RECURSIVE SeqsOfLen(_, _)
SeqsOfLen(S, n) ==
  IF n = 0 THEN {<<>>}
  ELSE {Append(s, x) : s \in SeqsOfLen(S, n - 1), x \in S}

SeqsUpTo(S, n) == UNION {SeqsOfLen(S, k) : k \in 0..n}

Range(s) == {s[i] : i \in 1..Len(s)}

(***************************************************************************)
(* path (posix)                                                            *)
(***************************************************************************)
RECURSIVE StripTrailingSlashes(_)
StripTrailingSlashes(p) ==
  IF p # <<>> /\ Last(p) = SLASH THEN StripTrailingSlashes(Front(p)) ELSE p

LastSlash(p) ==
  LET S == {i \in 1..Len(p) : p[i] = SLASH}
  IN IF S = {} THEN 0 ELSE CHOOSE i \in S : \A j \in S : j <= i

\* path.basename(p)
Basename(p) ==
  LET q == StripTrailingSlashes(p)
  IN SubSeq(q, LastSlash(q) + 1, Len(q))

\* the segments of p between its slashes
RECURSIVE Split(_)
Split(p) ==
  LET S == {i \in 1..Len(p) : p[i] = SLASH}
  IN IF S = {} THEN <<p>>
     ELSE LET i == CHOOSE k \in S : \A j \in S : k <= j
          IN <<SubSeq(p, 1, i - 1)>> \o Split(SubSeq(p, i + 1, Len(p)))

RECURSIVE JoinSegs(_)
JoinSegs(segs) ==
  IF segs = <<>> THEN <<>>
  ELSE IF Len(segs) = 1 THEN segs[1]
  ELSE segs[1] \o <<SLASH>> \o JoinSegs(Tail(segs))

\* normalizeString: drops empty and "." segments, resolves ".." segments
RECURSIVE NormalizeSegs(_, _, _)
NormalizeSegs(segs, acc, allowAboveRoot) ==
  IF segs = <<>> THEN acc
  ELSE LET s == Head(segs)
           r == Tail(segs)
       IN IF s = <<>> \/ s = <<DOT>> THEN NormalizeSegs(r, acc, allowAboveRoot)
          ELSE IF s = <<DOT, DOT>>
          THEN IF acc # <<>> /\ Last(acc) # <<DOT, DOT>>
               THEN NormalizeSegs(r, Front(acc), allowAboveRoot)
               ELSE IF allowAboveRoot
               THEN NormalizeSegs(r, Append(acc, s), allowAboveRoot)
               ELSE NormalizeSegs(r, acc, allowAboveRoot)
          ELSE NormalizeSegs(r, Append(acc, s), allowAboveRoot)

IsAbsolute(p) == p # <<>> /\ p[1] = SLASH

\* path.posix.normalize(p)
Normalize(p) ==
  IF p = <<>> THEN <<DOT>>
  ELSE LET abs == IsAbsolute(p)
           trail == Last(p) = SLASH
           body == JoinSegs(NormalizeSegs(Split(p), <<>>, ~abs))
       IN IF body = <<>>
          THEN IF abs THEN <<SLASH>> ELSE IF trail THEN <<DOT, SLASH>> ELSE <<DOT>>
          ELSE (IF abs THEN <<SLASH>> ELSE <<>>) \o body
                 \o (IF trail THEN <<SLASH>> ELSE <<>>)

\* path.join(...parts) and path.posix.join(...parts)
PosixJoin(parts) ==
  LET nonEmpty == SelectSeq(parts, LAMBDA x : x # <<>>)
  IN Normalize(JoinSegs(nonEmpty))

\* path.dirname(p), for the normalized absolute paths require.resolve returns
Dirname(p) ==
  LET q == StripTrailingSlashes(p)
      i == LastSlash(q)
  IN IF i = 0 THEN <<DOT>>
     ELSE IF i = 1 THEN <<SLASH>>
     ELSE StripTrailingSlashes(SubSeq(q, 1, i - 1))

\* the working directory of the process
Cwd == <<SLASH, "app">>

\* path.resolve(p), which every fs call applies to a relative path
Resolve(p) ==
  LET n == IF IsAbsolute(p) THEN Normalize(p) ELSE Normalize(Cwd \o <<SLASH>> \o p)
  IN IF Len(n) > 1 THEN StripTrailingSlashes(n) ELSE n

\* String.replace(/\-/g, '_')
RECURSIVE ReplaceHyphens(_)
ReplaceHyphens(s) ==
  IF s = <<>> THEN <<>>
  ELSE <<IF Head(s) = HYPHEN THEN UNDERSCORE ELSE Head(s)>> \o ReplaceHyphens(Tail(s))

(***************************************************************************)
(* The plugin's constants and construction (vitePluginWasmPack)            *)
(***************************************************************************)
prefix == <<"@vite-plugin-wasm-pack@">>

\* default folder of wasm-pack module
pkg == <<"pkg">>

\* the text  _bg.wasm
WasmSuffix == <<UNDERSCORE, "bg", WASM_EXT>>

\* from ../../my-crate  ->  my_crate_bg.wasm
wasmFilename(cratePath) == ReplaceHyphens(Basename(cratePath)) \o WasmSuffix

\* require.resolve(cratePath): the entry point of an installed wasm-pack
\* package is its loader script, node_modules/<id>/<underscored name>.js
RequireResolve(cratePath) ==
  Resolve(<<"node_modules", SLASH>> \o cratePath \o <<SLASH>>
            \o ReplaceHyphens(Basename(cratePath)) \o <<JS_EXT>>)

\* the CrateType of a local crate
LocalEntry(cratePath) ==
  [path |-> PosixJoin(<<cratePath, pkg, wasmFilename(cratePath)>>),
   isNodeModule |-> FALSE]

\* the CrateType of a crate from npm
ModuleEntry(cratePath) ==
  [path |-> PosixJoin(<<Dirname(RequireResolve(cratePath)), wasmFilename(cratePath)>>),
   isNodeModule |-> TRUE]

\* MapSet with a slip: a key the map already has keeps its first value
MapSetKeepFirst(m, key, value) ==
  IF \E i \in 1..Len(m) : m[i].key = key THEN m
  ELSE Append(m, [key |-> key, value |-> value])

\* Map.prototype.set on a Map kept as the sequence of its entries in insertion
\* order: an existing key keeps its place and takes the new value
MapSet(m, key, value) ==
  IF \E i \in 1..Len(m) : m[i].key = key
  THEN [i \in 1..Len(m) |-> IF m[i].key = key THEN [key |-> key, value |-> value] ELSE m[i]]
  ELSE Append(m, [key |-> key, value |-> value])

MapHas(m, key) == \E i \in 1..Len(m) : m[i].key = key

\* Map.prototype.get, for a key the map has
MapGet(m, key) == (CHOOSE e \in Range(m) : e.key = key).value

\* cratePaths.forEach(...) of the construction
RECURSIVE AddLocals(_, _)
AddLocals(m, paths) ==
  IF paths = <<>> THEN m
  ELSE AddLocals(MapSet(m, wasmFilename(Head(paths)), LocalEntry(Head(paths))), Tail(paths))

\* modulePaths.forEach(...) of the construction
RECURSIVE AddModules(_, _)
AddModules(m, paths) ==
  IF paths = <<>> THEN m
  ELSE AddModules(MapSet(m, wasmFilename(Head(paths)), ModuleEntry(Head(paths))), Tail(paths))

\* the wasmMap the construction leaves
BuildWasmMap(crates, modules) == AddModules(AddLocals(<<>>, crates), modules)

(***************************************************************************)
(* The loader-script rewrite of prepareBuild                               *)
(*   regex = /input = new URL\('(.+)'.+;/g                                 *)
(* A match starts at  input = new URL('  and stays on one line (. matches  *)
(* no line break).  Both .+ are greedy: the match ends at the last ; of    *)
(* the line and the group ends before the last ' that leaves at least one  *)
(* character between it and that ;.                                        *)
(***************************************************************************)
StartsPattern(t, i) ==
  /\ i + 2 <= Len(t)
  /\ t[i] = INPUT_EQ
  /\ t[i + 1] = NEW_URL
  /\ t[i + 2] = QUOTE

\* the last position of the line that position i is on
LineEnd(t, i) ==
  LET B == {k \in i..Len(t) : t[k] = NL}
  IN IF B = {} THEN Len(t) ELSE (CHOOSE k \in B : \A j \in B : k <= j) - 1

\* the position of the ; that ends a match starting at i, 0 when there is none
MatchEnd(t, i) ==
  LET S == {k \in (i + 3)..LineEnd(t, i) : t[k] = SEMI}
  IN IF S = {} THEN 0 ELSE CHOOSE k \in S : \A j \in S : j <= k

\* the position of the ' that closes the group of a match starting at i, 0
\* when there is none
GroupClose(t, i) ==
  LET e == MatchEnd(t, i)
      Q == {j \in (i + 4)..Len(t) : j + 2 <= e /\ t[j] = QUOTE}
  IN IF e = 0 \/ Q = {} THEN 0 ELSE CHOOSE j \in Q : \A k \in Q : k <= j

\* regex matches at position i
MatchesAt(t, i) == StartsPattern(t, i) /\ GroupClose(t, i) # 0

\* group1 of the match at position i
Group1(t, i) == SubSeq(t, i + 3, GroupClose(t, i) - 1)

\* path.posix.join(config_base, config_assetsDir, group1)
RewrittenUrl(base, assetsDir, group1) == PosixJoin(<<base, assetsDir, group1>>)

\* Replacement with a slip: the joined path is put back inside new URL(...)
ReplacementKeepingUrl(base, assetsDir, group1) ==
  <<INPUT_EQ, NEW_URL, QUOTE>> \o RewrittenUrl(base, assetsDir, group1)
    \o <<QUOTE, ",", SEMI>>

\* the text the replacer returns:  input = "<joined path>"
Replacement(base, assetsDir, group1) ==
  <<INPUT_EQ, DQUOTE>> \o RewrittenUrl(base, assetsDir, group1) \o <<DQUOTE>>

RECURSIVE ReplaceFrom(_, _, _, _)
ReplaceFrom(t, i, base, assetsDir) ==
  IF i > Len(t) THEN <<>>
  ELSE IF MatchesAt(t, i)
  THEN Replacement(base, assetsDir, Group1(t, i))
         \o ReplaceFrom(t, MatchEnd(t, i) + 1, base, assetsDir)
  ELSE <<t[i]>> \o ReplaceFrom(t, i + 1, base, assetsDir)

\* code.replace(regex, replacer)
RewriteCode(code, base, assetsDir) == ReplaceFrom(code, 1, base, assetsDir)

\* the values the replacer computed, one per match, in order
RECURSIVE UrlsFrom(_, _, _, _)
UrlsFrom(t, i, base, assetsDir) ==
  IF i > Len(t) THEN <<>>
  ELSE IF MatchesAt(t, i)
  THEN <<RewrittenUrl(base, assetsDir, Group1(t, i))>>
         \o UrlsFrom(t, MatchEnd(t, i) + 1, base, assetsDir)
  ELSE UrlsFrom(t, i + 1, base, assetsDir)

\* regex matches somewhere in t
HasMatch(t) == \E i \in 1..Len(t) : MatchesAt(t, i)

(***************************************************************************)
(* The file system: files maps the resolved path of each file to its       *)
(* content, dirs is the set of resolved paths of the directories.          *)
(***************************************************************************)
\* fs.existsSync(p)
ExistsSync(fl, ds, p) == Resolve(p) \in ds \/ Resolve(p) \in DOMAIN fl

\* fl with the file at resolved path p holding content
WriteFile(fl, p, content) ==
  [q \in DOMAIN fl \cup {p} |-> IF q = p THEN content ELSE fl[q]]

\* the files directly inside directory d (a resolved path)
FilesIn(fl, d) == {f \in DOMAIN fl : Dirname(f) = d}

\* the files a successful fs.copy(src, dst) of a directory leaves
CopyDir(fl, src, dst) ==
  LET from == FilesIn(fl, Resolve(src))
      target(f) == Resolve(dst \o <<SLASH>> \o Basename(f))
      new == {target(f) : f \in from}
  IN [q \in DOMAIN fl \cup new |->
        IF q \in new THEN fl[CHOOSE f \in from : target(f) = q] ELSE fl[q]]

(***************************************************************************)
(* State                                                                   *)
(***************************************************************************)
VARIABLES
  cratePaths,        \* local crates paths, in declaration order
  modulePaths,       \* crates names from npm, in declaration order
  wasmMap,           \* wasmfileName : CrateType, in insertion order
  config_base,       \* resolvedConfig.base once configResolved ran
  config_assetsDir,  \* resolvedConfig.build.assetsDir once configResolved ran
  files,             \* the file system: resolved path -> content
  dirs,              \* the file system: resolved paths of the directories
  build,             \* what the buildStart hook did
  emitted,           \* what the buildEnd hook did
  res,               \* the last request the middleware saw and its response
  resolved,          \* the last resolveId call and what it returned
  script             \* a loader-script text and its successive rewrites

vars == <<cratePaths, modulePaths, wasmMap, config_base, config_assetsDir,
          files, dirs, build, emitted, res, resolved, script>>

(***************************************************************************)
(* Inputs                                                                  *)
(***************************************************************************)
\* ./a-b   ../a_b   c/
LocalCrates ==
  {<<DOT, SLASH, "a", HYPHEN, "b">>,
   <<DOT, DOT, SLASH, "a", UNDERSCORE, "b">>,
   <<"c", SLASH>>}

\* a-b   @g/c
NpmCrates == {<<"a", HYPHEN, "b">>, <<"@g", SLASH, "c">>}

\* /   /sub/
Bases == {<<SLASH>>, <<SLASH, "sub", SLASH>>}

\* assets (the default of build.assetsDir)   static
AssetsDirs == {<<"assets">>, <<"static">>}

\* the loader script wasm-pack generates for a crate: one line of it builds
\* the URL of the binary,  input = new URL('<name>_bg.wasm', import.meta.url);
LoaderScript(cratePath) ==
  <<"let wasm;", NL, INPUT_EQ, NEW_URL, QUOTE>> \o wasmFilename(cratePath)
    \o <<QUOTE, ",", " import.meta.url)", SEMI, NL, "export default init;">>

\* a loader script without that line
PlainScript == <<"let wasm;", NL, "export default init;">>

\* the bytes of the binary built from a source
WasmBytes(cratePath, isNodeModule) ==
  <<"\\0asm", IF isNodeModule THEN "npm" ELSE "local">> \o cratePath

\* the directory holding a source's binary and loader script
PkgPath(cratePath, isNodeModule) ==
  IF isNodeModule THEN Dirname(RequireResolve(cratePath))
  ELSE PosixJoin(<<cratePath, pkg>>)

\* the name of a source's loader script
JsName(cratePath) == ReplaceHyphens(Basename(cratePath)) \o <<JS_EXT>>

\* the two files wasm-pack leaves in a source's directory, as <<path, content>>
PkgFiles(cratePath, isNodeModule, plain) ==
  LET d == PkgPath(cratePath, isNodeModule)
  IN {<<Resolve(PosixJoin(<<d, JsName(cratePath)>>)),
        IF plain THEN PlainScript ELSE LoaderScript(cratePath)>>,
      <<Resolve(PosixJoin(<<d, wasmFilename(cratePath)>>)),
        WasmBytes(cratePath, isNodeModule)>>}

FunctionOf(pairs) ==
  [p \in {x[1] : x \in pairs} |-> (CHOOSE x \in pairs : x[1] = p)[2]]

\* the file system when the plugin is constructed: the local crates of built
\* have been built by wasm-pack, every npm crate is installed
InitialFiles(built, modules, plain) ==
  FunctionOf(UNION ({PkgFiles(c, FALSE, plain) : c \in built}
                      \cup {PkgFiles(m, TRUE, plain) : m \in Range(modules)}))

InitialDirs(built, modules) ==
  {Resolve(PkgPath(c, FALSE)) : c \in built}
    \cup {Resolve(PkgPath(m, TRUE)) : m \in Range(modules)}

NoBuild ==
  [status |-> "idle", thrown |-> "", at |-> 0, console |-> <<>>,
   copyFailed |-> <<>>, read |-> <<>>, written |-> <<>>]

NoEmit == [status |-> "idle", assets |-> <<>>]

NoRequest ==
  [handled |-> FALSE, url |-> Undefined, headers |-> {}, statusCode |-> 0,
   piped |-> <<>>, body |-> <<>>, streamError |-> FALSE, nextCalls |-> 0]

NoResolve == [id |-> Undefined, result |-> Undefined]

Init ==
  /\ cratePaths \in SeqsUpTo(LocalCrates, MaxSources)
  /\ modulePaths \in SeqsUpTo(NpmCrates, MaxSources - Len(cratePaths))
  /\ wasmMap = BuildWasmMap(cratePaths, modulePaths)
  /\ config_base = Undefined
  /\ config_assetsDir = Undefined
  /\ \E built \in SUBSET Range(cratePaths), plain \in BOOLEAN :
       /\ files = InitialFiles(built, modulePaths, plain)
       /\ dirs = InitialDirs(built, modulePaths)
  /\ build = NoBuild
  /\ emitted = NoEmit
  /\ res = NoRequest
  /\ resolved = NoResolve
  /\ script = <<>>

(***************************************************************************)
(* configResolved                                                          *)
(***************************************************************************)
\* the bundler calls it once, before any other hook reads the configuration
ConfigResolved ==
  /\ config_base = Undefined
  /\ \E base \in Bases, assetsDir \in AssetsDirs :
       /\ config_base' = base
       /\ config_assetsDir' = assetsDir
  /\ UNCHANGED <<cratePaths, modulePaths, wasmMap, files, dirs, build, emitted,
                 res, resolved, script>>

(***************************************************************************)
(* resolveId                                                               *)
(***************************************************************************)
Null == <<"null">>

\* the ids the bundler asks about
Ids ==
  {Basename(c) : c \in LocalCrates} \cup NpmCrates \cup LocalCrates
    \cup {<<"a">>, <<"a", UNDERSCORE, "b">>}

\* IdMatches with a slip: the crate path itself is compared
IdMatchesPath(cratePath, id) == cratePath = id

\* path.basename(cratePaths[i]) === id
IdMatches(cratePath, id) == Basename(cratePath) = id

\* what resolveId(id) returns
ResolveIdResult(crates, id) ==
  IF \E i \in 1..Len(crates) : IdMatches(crates[i], id) THEN prefix \o id ELSE Null

ResolveId ==
  /\ \E id \in Ids : resolved' = [id |-> id, result |-> ResolveIdResult(cratePaths, id)]
  /\ UNCHANGED <<cratePaths, modulePaths, wasmMap, config_base, config_assetsDir,
                 files, dirs, build, emitted, res, script>>

(***************************************************************************)
(* buildStart                                                              *)
(***************************************************************************)
\* ThisError with a slip: this.warn(message), which records and returns
ThisWarn(b, message) == [b EXCEPT !.thrown = message]

\* this.error(message) of the plugin context: records the error and throws
ThisError(b, message) == [b EXCEPT !.status = "threw", !.thrown = message]

\* where prepareBuild reads and writes the loader script
JsPath(cratePath, isNodeModule) ==
  IF isNodeModule
  THEN PosixJoin(<<PkgPath(cratePath, TRUE), JsName(cratePath)>>)
  ELSE PosixJoin(<<<<DOT, SLASH, "node_modules">>, Basename(cratePath), JsName(cratePath)>>)

\* where the pkg of a local crate is copied to
StagedPath(cratePath) == PosixJoin(<<<<"node_modules">>, Basename(cratePath)>>)

\* !fs.existsSync(pkgPath)
Missing(src, st) ==
  ~ExistsSync(st.files, st.dirs, PkgPath(src.cratePath, src.isNodeModule))

\* prepareBuild, first part: console.error names a directory that is missing
CheckPkg(src, st) ==
  [st EXCEPT !.build.at = @ + 1,
             !.build.console = IF Missing(src, st) THEN Append(@, src) ELSE @]

\* prepareBuild, second part: the pkg of a local crate is copied to
\* node_modules.  fs.copy rejects when its source does not exist; ioError
\* stands for any other failure of the copy.  A copy that fails is taken to
\* leave its target untouched.
CopyPkg(src, st, ioError) ==
  IF src.isNodeModule THEN st
  ELSE IF Missing(src, st) \/ ioError
  THEN [st EXCEPT !.build = ThisError([@ EXCEPT !.copyFailed = Append(@, src)],
                                      "copy crates failed")]
  ELSE [st EXCEPT
          !.files = CopyDir(@, PkgPath(src.cratePath, FALSE), StagedPath(src.cratePath)),
          !.dirs = @ \cup {Resolve(StagedPath(src.cratePath))}]

\* the record of one write-back of a loader script
Written(src, jsPath, code) ==
  [cratePath |-> src.cratePath, isNodeModule |-> src.isNodeModule, jsPath |-> jsPath,
   code |-> RewriteCode(code, config_base, config_assetsDir),
   urls |-> UrlsFrom(code, 1, config_base, config_assetsDir)]

\* prepareBuild, third part, which a throw of the second part does not reach:
\* the loader script is read (fs.readFileSync throws when it cannot be),
\* rewritten and written back
RewriteLoader(src, st, jsPath) ==
  IF st.build.status = "threw" THEN st
  ELSE IF jsPath \notin DOMAIN st.files
  THEN [st EXCEPT !.build.status = "threw", !.build.thrown = "ENOENT"]
  ELSE [st EXCEPT
          !.files = WriteFile(@, jsPath,
                              RewriteCode(@[jsPath], config_base, config_assetsDir)),
          !.build.read = Append(@, src),
          !.build.written = Append(@, Written(src, jsPath, st.files[jsPath]))]

\* prepareBuild(cratePath, isNodeModule) from st = [files, dirs, build]
PrepareBuild(src, st, ioError) ==
  RewriteLoader(src, CopyPkg(src, CheckPkg(src, st), ioError),
                Resolve(JsPath(src.cratePath, src.isNodeModule)))

\* the sources in the order buildStart takes them: the local crates, then the
\* npm crates
Sources(crates, modules) ==
  [i \in 1..Len(crates) |-> [cratePath |-> crates[i], isNodeModule |-> FALSE]]
    \o [i \in 1..Len(modules) |-> [cratePath |-> modules[i], isNodeModule |-> TRUE]]

\* the two for-await loops; failAt is the place in the order of the source
\* whose copy meets an i/o error (0: none does)
RECURSIVE RunBuild(_, _, _)
RunBuild(queue, st, failAt) ==
  IF queue = <<>> THEN [st EXCEPT !.build.status = "done"]
  ELSE LET next == PrepareBuild(Head(queue), st, failAt = st.build.at + 1)
       IN IF next.build.status = "threw" THEN next
          ELSE RunBuild(Tail(queue), next, failAt)

\* the bundler calls buildStart once per build, after configResolved
BuildStart ==
  /\ config_base # Undefined
  /\ build.status = "idle"
  /\ \E failAt \in 0..Len(cratePaths) :
       LET st == RunBuild(Sources(cratePaths, modulePaths),
                          [files |-> files, dirs |-> dirs,
                           build |-> [NoBuild EXCEPT !.status = "running"]],
                          failAt)
       IN /\ files' = st.files
          /\ dirs' = st.dirs
          /\ build' = st.build
  /\ UNCHANGED <<cratePaths, modulePaths, wasmMap, config_base, config_assetsDir,
                 emitted, res, resolved, script>>

(***************************************************************************)
(* The middleware of configureServer                                       *)
(***************************************************************************)
\* the urls of the requests: every file name the sources can derive, under a
\* directory and bare, one with a query, two names no source derives, and
\* Undefined for a request whose url is not a string
Urls ==
  LET names == {wasmFilename(c) : c \in LocalCrates \cup NpmCrates}
  IN {<<SLASH, "x", SLASH>> \o n : n \in names}
       \cup names
       \cup {<<SLASH>> \o n \o <<"?v=1">> : n \in names}
       \cup {<<SLASH, "x", SLASH, "unknown", WASM_EXT>>, <<SLASH, "index.html">>,
             Undefined}

\* isString(req.url)
IsString(url) == url # Undefined

\* basename.endsWith('.wasm')
EndsWithWasm(name) == name # <<>> /\ Last(name) = WASM_EXT

\* res.setHeader(name, value)
SetHeader(r, name, value) ==
  [r EXCEPT !.headers = {h \in @ : h[1] # name} \cup {<<name, value>>}]

\* WriteHead with a slip: the headers set before are dropped
WriteHeadReplacing(r, statusCode, headers) ==
  [r EXCEPT !.statusCode = statusCode, !.headers = headers]

\* res.writeHead(statusCode, headers)
WriteHead(r, statusCode, headers) ==
  [r EXCEPT !.statusCode = statusCode,
            !.headers = {h \in @ : \A g \in headers : g[1] # h[1]} \cup headers]

\* fs.createReadStream(path).pipe(res): the bytes of the file, or the
\* stream's error when the file cannot be opened
Pipe(r, fl, path) ==
  IF Resolve(path) \in DOMAIN fl
  THEN [r EXCEPT !.piped = path, !.body = fl[Resolve(path)]]
  ELSE [r EXCEPT !.piped = path, !.streamError = TRUE]

\* next()
CallNext(r) == [r EXCEPT !.nextCalls = @ + 1]

\* the response after the middleware has run for a request with this url
Handle(url) ==
  LET r0 == [NoRequest EXCEPT !.handled = TRUE, !.url = url]
  IN IF IsString(url)
     THEN LET basename == Basename(url)
              r1 == SetHeader(r0, "Cache-Control", "no-cache, no-store, must-revalidate")
          IN IF EndsWithWasm(basename) /\ MapHas(wasmMap, basename)
             THEN Pipe(WriteHead(r1, 200, {<<"Content-Type", "application/wasm">>}),
                       files, MapGet(wasmMap, basename).path)
             ELSE CallNext(r1)
     ELSE r0

Middleware ==
  /\ \E url \in Urls : res' = Handle(url)
  /\ UNCHANGED <<cratePaths, modulePaths, wasmMap, config_base, config_assetsDir,
                 files, dirs, build, emitted, resolved, script>>

(***************************************************************************)
(* buildEnd                                                                *)
(***************************************************************************)
\* EmittedName with a slip: the directory is left out
EmittedNameBare(fileName) == fileName

\* `assets/${fileName}`
EmittedName(fileName) == <<"assets", SLASH>> \o fileName

\* wasmMap.forEach((crate, fileName) => this.emitFile(...)); fs.readFileSync
\* throws at the first binary that cannot be read
RECURSIVE EmitAll(_, _, _)
EmitAll(entries, fl, assets) ==
  IF entries = <<>> THEN [status |-> "done", assets |-> assets]
  ELSE LET e == Head(entries)
       IN IF Resolve(e.value.path) \notin DOMAIN fl
          THEN [status |-> "threw", assets |-> assets]
          ELSE EmitAll(Tail(entries), fl,
                       Append(assets, [type |-> "asset",
                                       fileName |-> EmittedName(e.key),
                                       source |-> fl[Resolve(e.value.path)]]))

\* the bundler calls buildEnd once, after buildStart has returned or thrown
BuildEnd ==
  /\ build.status # "idle"
  /\ emitted.status = "idle"
  /\ emitted' = EmitAll(wasmMap, files, <<>>)
  /\ UNCHANGED <<cratePaths, modulePaths, wasmMap, config_base, config_assetsDir,
                 files, dirs, build, res, resolved, script>>

(***************************************************************************)
(* The rewrite applied again to its own result, as a later build applies   *)
(* it to the loader script of an npm crate, which buildStart rewrites in   *)
(* place.                                                                  *)
(***************************************************************************)
\* the pieces the loader-script texts are put together from:
\*   input = new URL('      a      ',;      the line break      '
Fragments ==
  {<<INPUT_EQ, NEW_URL, QUOTE>>, <<"a">>, <<QUOTE, ",", SEMI>>, <<NL>>, <<QUOTE>>}

ScriptTexts == {Flatten(fs) : fs \in SeqsUpTo(Fragments, MaxFragments)}

InitRewrite ==
  /\ cratePaths = <<>>
  /\ modulePaths = <<>>
  /\ wasmMap = <<>>
  /\ config_base \in Bases
  /\ config_assetsDir \in AssetsDirs
  /\ files = <<>>
  /\ dirs = {}
  /\ build = NoBuild
  /\ emitted = NoEmit
  /\ res = NoRequest
  /\ resolved = NoResolve
  /\ \E text \in ScriptTexts : script = <<text>>

RewriteAgain ==
  /\ Len(script) \in {1, 2}
  /\ script' = Append(script, RewriteCode(Last(script), config_base, config_assetsDir))
  /\ UNCHANGED <<cratePaths, modulePaths, wasmMap, config_base, config_assetsDir,
                 files, dirs, build, emitted, res, resolved>>

(***************************************************************************)
(* Specifications.  Spec is the whole plugin.  The hooks do not read what  *)
(* one another leave in build, emitted, res and resolved, so each group of *)
(* claims is checked under the specification of the hooks it is about.     *)
(***************************************************************************)
Next == ConfigResolved \/ BuildStart \/ BuildEnd \/ Middleware \/ ResolveId

Spec == Init /\ [][Next]_vars

NextBuild == ConfigResolved \/ BuildStart \/ BuildEnd

SpecBuild == Init /\ [][NextBuild]_vars

NextServe == Middleware

SpecServe == Init /\ [][NextServe]_vars

NextResolve == ResolveId

SpecResolve == Init /\ [][NextResolve]_vars

NextRewrite == RewriteAgain

SpecRewrite == InitRewrite /\ [][NextRewrite]_vars

(***************************************************************************)
(* Properties                                                              *)
(***************************************************************************)
CacheControl == <<"Cache-Control", "no-cache, no-store, must-revalidate">>

ContentType == <<"Content-Type", "application/wasm">>

\* the sources in processing order
Order == Sources(cratePaths, modulePaths)

\* the sources a log of buildStart names, in its order
SourcesOf(log) ==
  [i \in 1..Len(log) |-> [cratePath |-> log[i].cratePath,
                          isNodeModule |-> log[i].isNodeModule]]

\* C1: the name under which buildEnd emits a binary, served under the base
\* path, is the location buildStart wrote into the loader script of the
\* module that binary belongs to.
C1_EmittedNameMatchesRewrittenUrl ==
  (build.status = "done" /\ emitted.status = "done") =>
    \A w \in Range(build.written) : \A u \in Range(w.urls) :
      \A a \in Range(emitted.assets) :
        a.fileName = <<"assets", SLASH>> \o wasmFilename(w.cratePath)
          => u = PosixJoin(<<config_base, a.fileName>>)

\* C2: when the pkg directory of a declared local crate is absent, buildStart
\* reports it and does not abort: every other source whose directory exists
\* has its loader script rewritten and written back.
C2_MissingPkgDoesNotAbort ==
  build.status # "idle" =>
    \A i \in 1..Len(cratePaths) :
      ~ExistsSync(files, dirs, PkgPath(cratePaths[i], FALSE)) =>
        /\ build.status = "done"
        /\ \E k \in 1..Len(build.console) : build.console[k] = Order[i]
        /\ \A j \in 1..Len(Order) :
             ExistsSync(files, dirs, PkgPath(Order[j].cratePath, Order[j].isNodeModule))
               => \E k \in 1..Len(build.written) : SourcesOf(build.written)[k] = Order[j]

\* C3: a request the middleware passes to the next handler has had no
\* response header set and no status written.
C3_PassThroughAddsNoHeader ==
  res.nextCalls > 0 => (res.headers = {} /\ res.statusCode = 0)

\* C4: for every request, whatever its url holds, the middleware either
\* writes the wasm response or calls next() exactly once.
C4_RespondsOrCallsNext ==
  res.handled =>
    \/ (res.statusCode = 200 /\ res.nextCalls = 0)
    \/ (res.statusCode = 0 /\ res.nextCalls = 1)

\* C5: a request whose url base name is a key of wasmMap is answered with
\* status 200, Content-Type: application/wasm, Cache-Control: no-cache,
\* no-store, must-revalidate and the bytes of the file at the entry's path,
\* and is not passed to the next handler.
C5_KnownNameIsServed ==
  (res.handled /\ IsString(res.url) /\ MapHas(wasmMap, Basename(res.url))) =>
    LET entry == MapGet(wasmMap, Basename(res.url))
    IN /\ res.statusCode = 200
       /\ ContentType \in res.headers
       /\ CacheControl \in res.headers
       /\ Cardinality(res.headers) = 2
       /\ res.nextCalls = 0
       /\ res.piped = entry.path
       /\ Resolve(entry.path) \in DOMAIN files =>
            (res.body = files[Resolve(entry.path)] /\ ~res.streamError)

\* C5, its case: a request under a directory for a name two sources derive
\* has been answered with the bytes of a binary
C5_Witness ==
  /\ res.handled
  /\ IsString(res.url)
  /\ Len(res.url) > Len(Basename(res.url))
  /\ MapHas(wasmMap, Basename(res.url))
  /\ Len(wasmMap) < Len(Order)
  /\ res.body # <<>>

\* C6: buildEnd emits exactly one asset per entry of wasmMap, in its order,
\* named assets/<binaryFileName> and holding the bytes of the file at the
\* entry's path (when every such file can be read; buildEnd throws
\* otherwise).
C6_OneAssetPerEntry ==
  emitted.status # "idle" =>
    IF \A i \in 1..Len(wasmMap) : Resolve(wasmMap[i].value.path) \in DOMAIN files
    THEN /\ emitted.status = "done"
         /\ Len(emitted.assets) = Len(wasmMap)
         /\ \A i \in 1..Len(wasmMap) :
              /\ emitted.assets[i].type = "asset"
              /\ emitted.assets[i].fileName = <<"assets", SLASH>> \o wasmMap[i].key
              /\ emitted.assets[i].source = files[Resolve(wasmMap[i].value.path)]
         /\ \A i, j \in 1..Len(emitted.assets) :
              emitted.assets[i].fileName = emitted.assets[j].fileName => i = j
    ELSE emitted.status = "threw"

\* C6, its case: buildEnd has emitted the binaries of two entries
C6_Witness ==
  /\ emitted.status = "done"
  /\ Len(emitted.assets) = 2
  /\ emitted.assets[1].source # emitted.assets[2].source

\* the place in the order of the last source that derives the file name
LastDeriving(name) ==
  LET S == {i \in 1..Len(Order) : wasmFilename(Order[i].cratePath) = name}
  IN CHOOSE i \in S : \A j \in S : j <= i

\* C7: wasmMap holds exactly one entry per distinct derived file name, and
\* the entry of a name is that of the last source deriving it, the local
\* crates taken first and the npm crates after them.
C7_LastSourceWins ==
  LET names == {wasmFilename(Order[i].cratePath) : i \in 1..Len(Order)}
  IN /\ Len(wasmMap) = Cardinality(names)
     /\ {wasmMap[i].key : i \in 1..Len(wasmMap)} = names
     /\ \A i \in 1..Len(wasmMap) :
          LET last == Order[LastDeriving(wasmMap[i].key)]
          IN /\ wasmMap[i].value.isNodeModule = last.isNodeModule
             /\ wasmMap[i].value.path =
                  (IF last.isNodeModule
                   THEN <<SLASH, "app", SLASH, "node_modules", SLASH>>
                          \o last.cratePath \o <<SLASH>> \o wasmMap[i].key
                   ELSE PosixJoin(<<last.cratePath, <<"pkg">>, wasmMap[i].key>>))

\* C7, its case: two sources that derive one file name and differ in path
C7_Witness ==
  \E i, j \in 1..Len(Order) :
    /\ i < j
    /\ wasmFilename(Order[i].cratePath) = wasmFilename(Order[j].cratePath)
    /\ Order[i] # Order[j]
    /\ ~Order[j].isNodeModule

\* no line of t holds  input = new URL('  twice
OncePerLine(t) ==
  \A i, j \in 1..Len(t) :
    (i < j /\ StartsPattern(t, i) /\ StartsPattern(t, j))
      => \E k \in i..j : t[k] = NL

\* C8, as stated: for every loader-script text, rewriting the rewritten text
\* again changes nothing.
C8_RewriteIdempotent == Len(script) = 3 => script[3] = script[2]

\* C8, amended: for every loader-script text no line of which holds
\* input = new URL('  more than once, the rewritten text no longer matches
\* the pattern and rewriting it again changes nothing.
C8_RewriteIdempotentOncePerLine ==
  (Len(script) = 3 /\ OncePerLine(script[1])) =>
    (script[3] = script[2] /\ ~HasMatch(script[2]))

\* C8, its case: a text with a match has been rewritten twice
C8_Witness ==
  /\ Len(script) = 3
  /\ OncePerLine(script[1])
  /\ HasMatch(script[1])
  /\ script[2] # script[1]

C10_CopyFailureAborts ==
  build.copyFailed # <<>> =>
    /\ build.status = "threw"
    /\ build.thrown = "copy crates failed"
    /\ build.copyFailed = <<Order[build.at]>>
    /\ SourcesOf(build.read) = SubSeq(Order, 1, build.at - 1)
    /\ SourcesOf(build.written) = SubSeq(Order, 1, build.at - 1)
    /\ \A k \in 1..Len(build.written) :
         (\A l \in (k + 1)..Len(build.written) :
            build.written[l].jsPath # build.written[k].jsPath)
           => files[build.written[k].jsPath] = build.written[k].code

\* C10, its case: the copy failed for a crate with a source before it, whose
\* loader script was rewritten, and a source after it
C10_Witness ==
  /\ build.copyFailed # <<>>
  /\ build.at = 2
  /\ Len(Order) = 3
  /\ Len(build.written) = 1
  /\ build.written[1].urls # <<>>

=============================================================================
